---- MODULE Spec2Model ----
(***************************************************************************)
(* A model of the AI tax agent: the tax computation core (tax_logic.py),   *)
(* the field normalizer and the request handlers (app.py) and the Form     *)
(* 1040 writer (form1040_generator.py).                                    *)
(*                                                                         *)
(* Python floats are IEEE-754 binary64 values.  The program's results at   *)
(* half-cent boundaries depend on the binary rounding of every operation,  *)
(* so floats are modelled bit-exactly: a float is sgn * man * 2^exp with a *)
(* 53-bit significand held as a multi-limb natural number.                 *)
(***************************************************************************)
EXTENDS Integers, Naturals, Sequences, FiniteSets, TLC

-----------------------------------------------------------------------------
(* Natural numbers of any size: little-endian sequences of limbs, base     *)
(* 2^15, without most-significant zero limbs; zero is the empty sequence.  *)

LimbBits == 15

Base == 2^LimbBits

Pow2(k) == 2^k

RECURSIVE BNTrim(_)
BNTrim(a) ==
    IF a = <<>> THEN a
    ELSE IF a[Len(a)] = 0 THEN BNTrim(SubSeq(a, 1, Len(a) - 1))
    ELSE a

RECURSIVE BNFromInt(_)
BNFromInt(n) ==
    IF n = 0 THEN <<>> ELSE <<n % Base>> \o BNFromInt(n \div Base)

RECURSIVE BNToInt(_)
BNToInt(a) ==
    IF a = <<>> THEN 0 ELSE Head(a) + Base * BNToInt(Tail(a))

RECURSIVE BNAddC(_, _, _)
BNAddC(a, b, c) ==
    IF a = <<>> /\ b = <<>> THEN (IF c = 0 THEN <<>> ELSE <<c>>)
    ELSE LET x == IF a = <<>> THEN 0 ELSE Head(a)
             y == IF b = <<>> THEN 0 ELSE Head(b)
             s == x + y + c
         IN  <<s % Base>> \o BNAddC(IF a = <<>> THEN a ELSE Tail(a),
                                    IF b = <<>> THEN b ELSE Tail(b),
                                    s \div Base)

BNAdd(a, b) == BNAddC(a, b, 0)

RECURSIVE BNSubB(_, _, _)
BNSubB(a, b, br) ==
    IF a = <<>> THEN <<>>
    ELSE LET y == IF b = <<>> THEN 0 ELSE Head(b)
             d == Head(a) - y - br
         IN  <<IF d < 0 THEN d + Base ELSE d>>
               \o BNSubB(Tail(a), IF b = <<>> THEN b ELSE Tail(b),
                         IF d < 0 THEN 1 ELSE 0)

\* a - b for a >= b
BNSub(a, b) == BNTrim(BNSubB(a, b, 0))

RECURSIVE BNCmpFrom(_, _, _)
BNCmpFrom(a, b, i) ==
    IF i = 0 THEN 0
    ELSE IF a[i] > b[i] THEN 1
    ELSE IF a[i] < b[i] THEN -1
    ELSE BNCmpFrom(a, b, i - 1)

\* -1, 0 or 1 as a < b, a = b, a > b
BNCmp(a, b) ==
    IF Len(a) > Len(b) THEN 1
    ELSE IF Len(a) < Len(b) THEN -1
    ELSE BNCmpFrom(a, b, Len(a))

RECURSIVE BNMulSmallC(_, _, _)
BNMulSmallC(a, k, c) ==
    IF a = <<>> THEN (IF c = 0 THEN <<>> ELSE <<c>>)
    ELSE LET p == Head(a) * k + c
         IN  <<p % Base>> \o BNMulSmallC(Tail(a), k, p \div Base)

\* a * k for 0 <= k < Base
BNMulSmall(a, k) == IF k = 0 THEN <<>> ELSE BNMulSmallC(a, k, 0)

BNShiftLimbs(a, n) == IF a = <<>> THEN a ELSE [i \in 1..n |-> 0] \o a

RECURSIVE BNMul(_, _)
BNMul(a, b) ==
    IF b = <<>> \/ a = <<>> THEN <<>>
    ELSE BNAdd(BNMulSmall(a, Head(b)), BNShiftLimbs(BNMul(a, Tail(b)), 1))

\* quotient (untrimmed) and remainder of a by d, 0 < d < 2^16
RECURSIVE BNDivR(_, _)
BNDivR(a, d) ==
    IF a = <<>> THEN [q |-> <<>>, r |-> 0]
    ELSE LET hi  == BNDivR(Tail(a), d)
             cur == hi.r * Base + Head(a)
         IN  [q |-> <<cur \div d>> \o hi.q, r |-> cur % d]

BNDivSmall(a, d) == LET x == BNDivR(a, d) IN [q |-> BNTrim(x.q), r |-> x.r]

\* a * 2^k
BNShl(a, k) == BNShiftLimbs(BNMulSmall(a, Pow2(k % LimbBits)), k \div LimbBits)

\* floor(a / 2^k)
BNShr(a, k) ==
    LET drop == k \div LimbBits
    IN  IF drop >= Len(a) THEN <<>>
        ELSE BNDivSmall(SubSeq(a, drop + 1, Len(a)), Pow2(k % LimbBits)).q

BNBitLen(a) ==
    IF a = <<>> THEN 0
    ELSE (Len(a) - 1) * LimbBits
           + (CHOOSE n \in 1..LimbBits :
                 Pow2(n - 1) <= a[Len(a)] /\ a[Len(a)] < Pow2(n))

\* a rounded to the nearest multiple of 2^k, ties to even, divided by 2^k;
\* sticky says that the exact value lies strictly above a
BNRoundShr(a, k, sticky) ==
    IF k = 0 THEN a
    ELSE LET q    == BNShr(a, k)
             rem  == BNSub(a, BNShl(q, k))
             half == BNShl(<<1>>, k - 1)
             c    == BNCmp(rem, half)
             odd  == q # <<>> /\ q[1] % 2 = 1
             up   == c = 1 \/ (c = 0 /\ (sticky \/ odd))
         IN  IF up THEN BNAdd(q, <<1>>) ELSE q

-----------------------------------------------------------------------------
(* Python float: IEEE-754 binary64, round to nearest, ties to even.  A     *)
(* finite value is sgn * man * 2^exp with man = 0 or 2^52 <= man < 2^53;   *)
(* float('inf') is its own kind.  The values of this program stay far      *)
(* inside the normal range, so subnormals and overflow do not occur.       *)

MantBits == 53

FZero == [kind |-> "fin", sgn |-> 1, man |-> <<>>, exp |-> 0]

FInf == [kind |-> "inf", sgn |-> 1, man |-> <<>>, exp |-> 0]

\* sgn * n * 2^e (n a natural number) rounded to a float; sticky says that
\* the exact magnitude lies strictly above n * 2^e (by less than 2^e)
FRound(sgn, n, e, sticky) ==
    LET len == BNBitLen(n)
    IN  IF len = 0 THEN FZero
        ELSE IF len <= MantBits
        THEN [kind |-> "fin", sgn |-> sgn,
              man |-> BNShl(n, MantBits - len), exp |-> e - (MantBits - len)]
        ELSE LET sh == len - MantBits
                 q  == BNRoundShr(n, sh, sticky)
             IN  IF BNBitLen(q) > MantBits
                 THEN [kind |-> "fin", sgn |-> sgn,
                       man |-> BNShr(q, 1), exp |-> e + sh + 1]
                 ELSE [kind |-> "fin", sgn |-> sgn, man |-> q, exp |-> e + sh]

Abs(i) == IF i < 0 THEN -i ELSE i

Sign(i) == IF i < 0 THEN -1 ELSE 1

\* float(i) for an int that fits a float exactly
FFromInt(i) == FRound(Sign(i), BNFromInt(Abs(i)), 0, FALSE)

\* the float nearest to num / den (0 < den < 2^16): what a decimal literal
\* or a decimal string converts to
FDivInt(num, den) ==
    LET d == BNDivSmall(BNShiftLimbs(BNFromInt(Abs(num)), 5), den)
    IN  FRound(Sign(num), d.q, -(5 * LimbBits), d.r # 0)

FNeg(x) == [x EXCEPT !.sgn = IF x.man = <<>> THEN 1 ELSE -x.sgn]

FAdd(x, y) ==
    IF x.man = <<>> THEN y
    ELSE IF y.man = <<>> THEN x
    ELSE LET e == IF x.exp < y.exp THEN x.exp ELSE y.exp
             a == BNShl(x.man, x.exp - e)
             b == BNShl(y.man, y.exp - e)
             c == BNCmp(a, b)
         IN  IF x.sgn = y.sgn THEN FRound(x.sgn, BNAdd(a, b), e, FALSE)
             ELSE IF c = 0 THEN FZero
             ELSE IF c = 1 THEN FRound(x.sgn, BNSub(a, b), e, FALSE)
             ELSE FRound(y.sgn, BNSub(b, a), e, FALSE)

FSub(x, y) == FAdd(x, FNeg(y))

FMul(x, y) ==
    IF x.man = <<>> \/ y.man = <<>> THEN FZero
    ELSE FRound(x.sgn * y.sgn, BNMul(x.man, y.man), x.exp + y.exp, FALSE)

\* -1, 0 or 1 as x < y, x = y, x > y (exact, as Python compares numbers)
FCmp(x, y) ==
    IF x.kind = "inf" THEN (IF y.kind = "inf" THEN 0 ELSE 1)
    ELSE IF y.kind = "inf" THEN -1
    ELSE IF x.man = <<>> THEN (IF y.man = <<>> THEN 0 ELSE -y.sgn)
    ELSE IF y.man = <<>> THEN x.sgn
    ELSE IF x.sgn # y.sgn THEN x.sgn
    ELSE LET e == IF x.exp < y.exp THEN x.exp ELSE y.exp
         IN  x.sgn * BNCmp(BNShl(x.man, x.exp - e), BNShl(y.man, y.exp - e))

\* The number of cents n such that round(x, 2) is the float nearest to
\* n / 100: the exact binary value of x times 100, rounded half to even.
RoundCents(x) ==
    IF x.man = <<>> THEN 0
    ELSE LET n == BNMulSmall(x.man, 100)
         IN  x.sgn * BNToInt(IF x.exp >= 0 THEN BNShl(n, x.exp)
                             ELSE BNRoundShr(n, -x.exp, FALSE))

\* round(x, 2): correctly rounded decimal, converted back to a float
PyRound2(x) == FDivInt(RoundCents(x), 100)

-----------------------------------------------------------------------------
(* Python str: a sequence of one-character strings.                        *)

UpperLetters ==
    <<"A","B","C","D","E","F","G","H","I","J","K","L","M",
      "N","O","P","Q","R","S","T","U","V","W","X","Y","Z">>

LowerLetters ==
    <<"a","b","c","d","e","f","g","h","i","j","k","l","m",
      "n","o","p","q","r","s","t","u","v","w","x","y","z">>

LowerChar(c) ==
    IF \E i \in 1..26 : UpperLetters[i] = c
    THEN LowerLetters[CHOOSE i \in 1..26 : UpperLetters[i] = c]
    ELSE c

\* s.lower()
str_lower(s) == [i \in 1..Len(s) |-> LowerChar(s[i])]

\* s.replace(old, new) for one-character old and new
str_replace(s, old, new) == [i \in 1..Len(s) |-> IF s[i] = old THEN new ELSE s[i]]

W_single == <<"s","i","n","g","l","e">>

W_married == <<"m","a","r","r","i","e","d">>

W_filing == <<"f","i","l","i","n","g">>

W_jointly == <<"j","o","i","n","t","l","y">>

W_separately == <<"s","e","p","a","r","a","t","e","l","y">>

W_head == <<"h","e","a","d">>

W_of == <<"o","f">>

W_household == <<"h","o","u","s","e","h","o","l","d">>

RECURSIVE Join(_, _)
Join(words, sep) ==
    IF Len(words) = 1 THEN words[1]
    ELSE words[1] \o sep \o Join(Tail(words), sep)

\* the words of the four filing statuses, in the order of the tables
StatusWords ==
    << <<W_single>>,
       <<W_married, W_filing, W_jointly>>,
       <<W_married, W_filing, W_separately>>,
       <<W_head, W_of, W_household>> >>

\* the keys of the two tables: "single", "married_filing_jointly", ...
Key(k) == Join(StatusWords[k], <<"_">>)

-----------------------------------------------------------------------------
(* The tables of tax_logic.py.  Amounts in the source text are ints and    *)
(* the rates decimal literals; a rate is written here in hundredths.       *)

\* float('inf') as the upper bound of a row
Unbounded == -1

DEDUCTION_ROWS == <<14600, 29200, 14600, 21900>>

BRACKET_ROWS ==
    << << <<0, 11000, 10>>, <<11000, 44725, 12>>, <<44725, 95375, 22>>,
          <<95375, 182100, 24>>, <<182100, 231250, 32>>,
          <<231250, 578125, 35>>, <<578125, Unbounded, 37>> >>,
       << <<0, 22000, 10>>, <<22000, 89450, 12>>, <<89450, 190750, 22>>,
          <<190750, 364200, 24>>, <<364200, 462500, 32>>,
          <<462500, 693750, 35>>, <<693750, Unbounded, 37>> >>,
       << <<0, 11000, 10>>, <<11000, 44725, 12>>, <<44725, 95375, 22>>,
          <<95375, 182100, 24>>, <<182100, 231250, 32>>,
          <<231250, 346875, 35>>, <<346875, Unbounded, 37>> >>,
       << <<0, 15700, 10>>, <<15700, 59850, 12>>, <<59850, 95350, 22>>,
          <<95350, 182100, 24>>, <<182100, 231250, 32>>,
          <<231250, 578100, 35>>, <<578100, Unbounded, 37>> >> >>

StatusKeys == {Key(k) : k \in 1..4}

KeyIndex(key) == CHOOSE k \in 1..4 : Key(k) = key

\* a row as the Python numbers (low, high, rate) the loop unpacks: two
\* ints (or float('inf')) and the float its decimal literal denotes
Band(row) ==
    [low  |-> FFromInt(row[1]),
     high |-> IF row[2] = Unbounded THEN FInf ELSE FFromInt(row[2]),
     rate |-> FDivInt(row[3], 100)]

\* the dicts, keyed by the status strings
STANDARD_DEDUCTION_TABLE ==
    [key \in StatusKeys |-> DEDUCTION_ROWS[KeyIndex(key)]]

BracketTable(rows) == [key \in StatusKeys |-> rows[KeyIndex(key)]]

\* a slip in the table: the second band of "single" starts at 11001
TAX_BRACKETS_2024_TABLE_gap ==
    BracketTable([BRACKET_ROWS EXCEPT ![1][2][1] = 11001])

TAX_BRACKETS_2024_TABLE == BracketTable(BRACKET_ROWS)

-----------------------------------------------------------------------------
(* State.  The two tables are module-level dicts of tax_logic.py, mutable  *)
(* like every Python object; `last` is the most recent call of a function  *)
(* of the core with its arguments and its outcome.  The web application    *)
(* adds the files it shares between requests (the uploads folder and       *)
(* static/output_1040.pdf), each client's POST request in progress, and    *)
(* what each client last received from /preview_pdf or /download.          *)

VARIABLES TAX_BRACKETS_2024, STANDARD_DEDUCTION, last,
          uploads, output_pdf, req, got

tables == <<TAX_BRACKETS_2024, STANDARD_DEDUCTION>>

appVars == <<uploads, output_pdf, req, got>>

\* the outcome of a call: a returned value, or an exception raised
Returned(v) == [exc |-> "none", val |-> v]

Raised(e) == [exc |-> e, val |-> <<>>]

\* the Python number a decimal with three fractional digits denotes,
\* given in thousandths of a dollar
Dec(mills) == FDivInt(mills, 1000)

-----------------------------------------------------------------------------
(* tax_logic.calculate_tax                                                 *)

\* if filing_status not in TAX_BRACKETS_2024: filing_status = "single"
bracket_status(filing_status) ==
    IF filing_status \notin DOMAIN TAX_BRACKETS_2024 THEN Key(1)
    ELSE filing_status

\* a slip in the full-band line: tax += high * rate
FullBand_noLow(tax, b) == FAdd(tax, FMul(b.high, b.rate))

\* tax += (high - low) * rate
FullBand(tax, b) == FAdd(tax, FMul(FSub(b.high, b.low), b.rate))

\* a slip in the last band: the whole income at the band's rate
PartialBand_whole(tax, income, b) == FMul(income, b.rate)

\* a slip in the last band: tax = (income - low) * rate
PartialBand_assign(tax, income, b) == FMul(FSub(income, b.low), b.rate)

\* tax += (income - low) * rate
PartialBand(tax, income, b) == FAdd(tax, FMul(FSub(income, b.low), b.rate))

\* for low, high, rate in brackets: ... break
RECURSIVE BracketLoop(_, _, _, _)
BracketLoop(brackets, i, income, tax) ==
    IF i > Len(brackets) THEN tax
    ELSE LET b == Band(brackets[i])
         IN  IF FCmp(income, b.high) = 1
             THEN BracketLoop(brackets, i + 1, income, FullBand(tax, b))
             ELSE PartialBand(tax, income, b)

calculate_tax(income, filing_status) ==
    LET fs == bracket_status(filing_status)
    IN  IF fs \notin DOMAIN TAX_BRACKETS_2024 THEN Raised("KeyError")
        ELSE Returned(PyRound2(BracketLoop(TAX_BRACKETS_2024[fs], 1, income, FZero)))

-----------------------------------------------------------------------------
(* tax_logic.compute_liability                                             *)

\* filing_status.lower().replace(" ", "_")
normalize_status(filing_status) == str_replace(str_lower(filing_status), " ", "_")

\* sum(incomes)
RECURSIVE py_sum(_, _)
py_sum(incomes, acc) ==
    IF incomes = <<>> THEN acc ELSE py_sum(Tail(incomes), FAdd(acc, Head(incomes)))

\* a slip in the default: STANDARD_DEDUCTION.get(filing_status, 0)
deduction_for_zero(filing_status) ==
    IF filing_status \in DOMAIN STANDARD_DEDUCTION
    THEN FFromInt(STANDARD_DEDUCTION[filing_status])
    ELSE FZero

\* STANDARD_DEDUCTION.get(filing_status, STANDARD_DEDUCTION["single"])
deduction_for(filing_status) ==
    IF filing_status \in DOMAIN STANDARD_DEDUCTION
    THEN FFromInt(STANDARD_DEDUCTION[filing_status])
    ELSE FFromInt(STANDARD_DEDUCTION[Key(1)])

\* a slip: the floor at zero left out
py_max0_missing(x) == x

\* max(0, x)
py_max0(x) == IF FCmp(x, FZero) = 1 THEN x ELSE FZero

\* lines 99-107: the refund and the summary dict, once the tax is known
liability_summary(total_income, deduction, taxable_income, tax, withheld) ==
    IF tax.exc # "none" THEN tax
    ELSE Returned(
           [Total_Income          |-> PyRound2(total_income),
            Standard_Deduction    |-> deduction,
            Taxable_Income        |-> PyRound2(taxable_income),
            Federal_Tax_Owed      |-> PyRound2(tax.val),
            Federal_Tax_Withheld  |-> PyRound2(withheld),
            Refund_or_Balance_Due |-> PyRound2(FSub(withheld, tax.val))])

\* line 98: tax = calculate_tax(taxable_income, filing_status)
liability_tax(fs, total_income, deduction, taxable_income, withheld) ==
    liability_summary(total_income, deduction, taxable_income,
                      calculate_tax(taxable_income, fs), withheld)

\* line 96: taxable_income = max(0, total_income - deduction)
liability_taxable(fs, total_income, deduction, withheld) ==
    liability_tax(fs, total_income, deduction,
                  py_max0(FSub(total_income, deduction)), withheld)

\* lines 94-95: total_income = sum(incomes); deduction = ...get(...)
liability_deduction(fs, incomes, withheld) ==
    liability_taxable(fs, py_sum(incomes, FZero), deduction_for(fs), withheld)

compute_liability(filing_status, incomes, withheld) ==
    liability_deduction(normalize_status(filing_status), incomes, withheld)

-----------------------------------------------------------------------------
(* app.to_float and the Python values a parsed document field can hold     *)

PyNone == [t |-> "None"]

PyFloat(mills) == [t |-> "float", mills |-> mills]

\* the int lead * 10^zeros, 0 <= lead <= 9
PyInt(lead, zeros) == [t |-> "int", lead |-> lead, zeros |-> zeros]

PyStr(chars) == [t |-> "str", s |-> chars]

PyList == [t |-> "list"]

DigitChars == <<"0","1","2","3","4","5","6","7","8","9">>

IsDigit(c) == \E i \in 1..10 : DigitChars[i] = c

DigitVal(c) == (CHOOSE i \in 1..10 : DigitChars[i] = c) - 1

RECURSIVE DigitsToInt(_, _)
DigitsToInt(ds, acc) ==
    IF ds = <<>> THEN acc ELSE DigitsToInt(Tail(ds), 10 * acc + DigitVal(Head(ds)))

IsSpace(c) == c \in {" ", "\t"}

RECURSIVE LStrip(_)
LStrip(s) == IF s # <<>> /\ IsSpace(Head(s)) THEN LStrip(Tail(s)) ELSE s

RECURSIVE RStrip(_)
RStrip(s) ==
    IF s # <<>> /\ IsSpace(s[Len(s)]) THEN RStrip(SubSeq(s, 1, Len(s) - 1)) ELSE s

\* s.strip()
str_strip(s) == RStrip(LStrip(s))

RECURSIVE BNPow10(_)
BNPow10(z) ==
    IF z = 0 THEN <<1>>
    ELSE LET h == BNPow10(z \div 2)
         IN  BNMulSmall(BNMul(h, h), IF z % 2 = 1 THEN 10 ELSE 1)

\* float(v) for an int: OverflowError from 2^1024 (about 1.797e308) on
float_of_int(v) ==
    IF v.zeros > 308 \/ (v.zeros = 308 /\ v.lead >= 2)
    THEN Raised("OverflowError")
    ELSE Returned(FRound(1, BNMulSmall(BNPow10(v.zeros), v.lead), 0, FALSE))

\* float(s) for a str of digits, sign, point and other characters: the
\* stripped text must be [sign] digits [. [digits]] or [sign] . digits
float_of_str(str) ==
    LET t    == str_strip(str)
        neg  == t # <<>> /\ t[1] = "-"
        u    == IF t # <<>> /\ t[1] \in {"-", "+"} THEN Tail(t) ELSE t
        dots == {i \in 1..Len(u) : u[i] = "."}
        dot  == IF dots = {} THEN Len(u) + 1 ELSE CHOOSE i \in dots : TRUE
        ip   == SubSeq(u, 1, dot - 1)
        fp   == SubSeq(u, dot + 1, Len(u))
        ok   == /\ Cardinality(dots) <= 1
                /\ \A i \in 1..Len(ip) : IsDigit(ip[i])
                /\ \A i \in 1..Len(fp) : IsDigit(fp[i])
                /\ Len(ip) + Len(fp) >= 1
        den  == 10 ^ Len(fp)
        num  == DigitsToInt(ip, 0) * den + DigitsToInt(fp, 0)
    IN  IF ok THEN Returned(FDivInt(IF neg THEN -num ELSE num, den))
        ELSE Raised("ValueError")

\* float(value)
py_float(value) ==
    CASE value.t = "float" -> Returned(Dec(value.mills))
      [] value.t = "int"   -> float_of_int(value)
      [] value.t = "str"   -> float_of_str(value.s)
      [] OTHER             -> Raised("TypeError")

\* try: return float(value) if value is not None else 0.0
\* except (TypeError, ValueError): return 0.0
to_float(value) ==
    IF value.t = "None" THEN Returned(FZero)
    ELSE LET r == py_float(value)
         IN  IF r.exc \in {"TypeError", "ValueError"} THEN Returned(FZero)
             ELSE r

-----------------------------------------------------------------------------
(* app.index: the aggregation of the parsed documents                      *)

\* doc.get(field)
DocGet(doc, field) == IF field \in DOMAIN doc THEN doc[field] ELSE PyNone

\* for doc in parsed_docs: total_income += to_float(..) + to_float(..) +
\* to_float(..); withheld += to_float(..)  -- the first exception ends it
RECURSIVE aggregate(_, _, _)

\* one turn of the loop, the four converted fields of the document given
aggregate_doc(docs, total_income, withheld, w, i, n, f) ==
    IF w.exc # "none" THEN w
    ELSE IF i.exc # "none" THEN i
    ELSE IF n.exc # "none" THEN n
    ELSE IF f.exc # "none" THEN f
    ELSE aggregate(Tail(docs),
                   FAdd(total_income, FAdd(FAdd(w.val, i.val), n.val)),
                   FAdd(withheld, f.val))

aggregate(docs, total_income, withheld) ==
    IF docs = <<>>
    THEN Returned([total_income |-> total_income, withheld |-> withheld])
    ELSE aggregate_doc(docs, total_income, withheld,
                       to_float(DocGet(Head(docs).fields, "wages")),
                       to_float(DocGet(Head(docs).fields, "interest_income")),
                       to_float(DocGet(Head(docs).fields, "nonemployee_compensation")),
                       to_float(DocGet(Head(docs).fields, "federal_income_tax_withheld")))

-----------------------------------------------------------------------------
(* Inputs of the core's functions.  Money is written in thousandths of a   *)
(* dollar: 60000000 is 60000.00 and 125 is 0.125.                          *)

UpperChar(c) ==
    IF \E i \in 1..26 : LowerLetters[i] = c
    THEN UpperLetters[CHOOSE i \in 1..26 : LowerLetters[i] = c]
    ELSE c

CaseWord(style, w) ==
    [i \in 1..Len(w) |->
        IF style = "upper" \/ (style = "title" /\ i = 1) THEN UpperChar(w[i])
        ELSE w[i]]

\* status k written in a letter case, with a word separator and padding
StatusText(k, style, sep, lead, trail) ==
    lead \o Join([i \in 1..Len(StatusWords[k]) |-> CaseWord(style, StatusWords[k][i])], sep)
         \o trail

KnownStatusInputs ==
    {StatusText(k, style, sep, pad[1], pad[2]) :
        k \in 1..4, style \in {"lower", "title", "upper"},
        sep \in {<<" ">>, <<"_">>, <<"-">>, <<" ", " ">>},
        pad \in {<< <<>>, <<>> >>, << <<" ">>, <<>> >>, << <<>>, <<" ">> >>}}

UnknownStatusInputs == {<<"f","o","o">>, <<>>, <<"w","i","d","o","w">>}

StatusInputs == KnownStatusInputs \cup UnknownStatusInputs

\* the finite upper bounds of all bands, in dollars
BandEdges ==
    {BRACKET_ROWS[k][i][2] : k \in 1..4, i \in 1..6}

\* taxable incomes: small amounts (with half-cent cases), every band edge
\* with the cent below and above it, and amounts inside bands
TaxableGrid ==
    {0, 5, 50, 100, 150, 250, 2500, 45400000, 100000555, 231265000, 700000000}
      \cup {e * 1000 + d : e \in BandEdges, d \in {-10, 0, 10}}

\* the longest list of income components
MaxComponents == 2

ComponentGrid == {-5000000, 0, 5, 2500, 14600000, 60000000}

WithheldGrid == {0, 125, 1125, 4300755, 8000000}

RECURSIVE SeqsUpTo(_, _)
SeqsUpTo(S, n) ==
    IF n = 0 THEN {<<>>}
    ELSE LET shorter == SeqsUpTo(S, n - 1)
         IN  shorter \cup {Append(q, x) : q \in {r \in shorter : Len(r) = n - 1}, x \in S}

IncomeLists == SeqsUpTo(ComponentGrid, MaxComponents) \ {<<>>}

\* every way of writing a status with two money cases, and the plain
\* statuses (and an unknown one) with every list of components
LiabilityInputs ==
    (StatusInputs \X {<<60000000>>, <<0>>} \X {0, 8000000})
      \cup ((StatusKeys \cup {<<"f","o","o">>}) \X IncomeLists \X WithheldGrid)

FloatInputs ==
    {PyNone, PyList, PyFloat(52300500), PyFloat(0), PyInt(6, 4), PyInt(0, 0),
     PyInt(1, 23), PyInt(2, 308), PyInt(1, 400),
     PyStr(<<>>), PyStr(<<"N","/","A">>), PyStr(<<"$","1",",","2","0","0">>),
     PyStr(<<"5","2","3","0","0",".","5","0">>), PyStr(<<" ","1","2"," ">>),
     PyStr(<<"-","5",".","5">>), PyStr(<<".","5">>), PyStr(<<"7",".">>),
     PyStr(<<"1",".","2",".","3">>), PyStr(<<".">>)}

-----------------------------------------------------------------------------
(* The web application's requests.  A file is what the parsing             *)
(* collaborator extracts from it (its document record); the Form 1040 PDF  *)
(* is the summary it was drawn from.                                       *)

\* the number of clients, each sending one POST /
NumClients == 2

Clients == 1..NumClients

NoFile == [exists |-> FALSE]

PdfOf(summary) == [exists |-> TRUE, summary |-> summary]

IdleRequest ==
    [pc |-> "idle", form |-> <<>>, files |-> <<>>, i |-> 0,
     uploaded_paths |-> <<>>, parsed_docs |-> <<>>, summary |-> <<>>,
     page |-> "none"]

\* request.form.get("filing_status", "single")
form_filing_status(form) ==
    IF "filing_status" \in DOMAIN form THEN form["filing_status"] ELSE Key(1)

DocW2 ==
    [wages |-> PyFloat(60000000), federal_income_tax_withheld |-> PyFloat(8000000)]

DocInt == [interest_income |-> PyFloat(126430)]

DocNec ==
    [nonemployee_compensation |-> PyStr(<<"8","2","0","0",".","0","0">>),
     wages |-> PyStr(<<"N","/","A">>),
     federal_income_tax_withheld |-> PyNone]

DocBig == [wages |-> PyInt(1, 400)]

Upload(filename, doc) == [filename |-> filename, doc |-> doc]

N_w2 == <<"w","2",".","p","d","f">>

N_int == <<"i","n","t",".","p","d","f">>

N_big == <<"b","i","g",".","p","d","f">>

\* what a client may post: the form and the uploaded files
Posts(c) ==
    IF c % 2 = 1
    THEN {[form |-> [filing_status |-> Key(1)], files |-> <<Upload(N_w2, DocW2)>>],
          [form |-> [filing_status |-> StatusText(2, "title", <<" ">>, <<>>, <<>>)],
           files |-> <<Upload(N_w2, DocW2), Upload(N_int, DocInt)>>],
          [form |-> <<>>, files |-> <<Upload(<<" ">>, DocW2)>>]}
    ELSE {[form |-> [filing_status |-> Key(1)], files |-> <<Upload(N_w2, DocNec)>>],
          [form |-> [filing_status |-> Key(4)], files |-> <<Upload(N_big, DocBig)>>]}

\* line 83: summary = compute_liability(filing_status, [total_income],
\* withheld), unless the aggregation raised
index_summary(form, sums) ==
    IF sums.exc # "none" THEN sums
    ELSE compute_liability(form_filing_status(form),
                           <<sums.val.total_income>>, sums.val.withheld)

\* an exception ends the request with a 500; else generate_1040 is next
request_after(r, summary) ==
    IF summary.exc # "none"
    THEN [r EXCEPT !.pc = "done", !.page = "500"]
    ELSE [r EXCEPT !.pc = "gen_exists", !.summary = summary.val]

\* GET /
IndexGet(c) ==
    /\ req[c].pc = "idle"
    /\ req[c].page = "none"
    /\ req' = [req EXCEPT ![c].page = "index"]
    /\ UNCHANGED <<tables, last, uploads, output_pdf, got>>

\* POST / arrives, from the index page or after an earlier request of the
\* client has been answered: the form and the files are read from it
IndexPost(c) ==
    /\ req[c].pc \in {"idle", "done"}
    /\ \E post \in Posts(c) :
          req' = [req EXCEPT ![c] = [IdleRequest EXCEPT !.pc = "save",
                                        !.form = post.form, !.files = post.files,
                                        !.i = 1]]
    /\ got' = [got EXCEPT ![c] = [route |-> "none", pdf |-> NoFile]]
    /\ UNCHANGED <<tables, last, uploads, output_pdf>>

\* one turn of: for f in uploaded_files: if f.filename.strip() == "":
\* continue; f.save(path); uploaded_paths.append(path)
SaveFile(c) ==
    /\ req[c].pc = "save"
    /\ req[c].i <= Len(req[c].files)
    /\ LET f == req[c].files[req[c].i]
       IN  IF str_strip(f.filename) = <<>>
           THEN /\ req' = [req EXCEPT ![c].i = @ + 1]
                /\ UNCHANGED uploads
           ELSE /\ uploads' = (f.filename :> f.doc) @@ uploads
                /\ req' = [req EXCEPT ![c].i = @ + 1,
                                      ![c].uploaded_paths = Append(@, f.filename)]
    /\ UNCHANGED <<tables, last, output_pdf, got>>

\* if not uploaded_paths: return render_template("index.html", error=...)
CheckUploads(c) ==
    /\ req[c].pc = "save"
    /\ req[c].i > Len(req[c].files)
    /\ req' = IF req[c].uploaded_paths = <<>>
              THEN [req EXCEPT ![c].pc = "done", ![c].page = "index_error"]
              ELSE [req EXCEPT ![c].pc = "parse", ![c].i = 1]
    /\ UNCHANGED <<tables, last, uploads, output_pdf, got>>

\* one turn of parse_multiple_documents: the file at the path is read as
\* it is now and parsed; parsed["file_name"] = os.path.basename(file_path)
ParseFile(c) ==
    /\ req[c].pc = "parse"
    /\ LET path   == req[c].uploaded_paths[req[c].i]
           parsed == [file_name |-> path, fields |-> uploads[path]]
       IN  req' = [req EXCEPT ![c].parsed_docs = Append(@, parsed),
                              ![c].i = @ + 1,
                              ![c].pc = IF req[c].i = Len(req[c].uploaded_paths)
                                        THEN "compute" ELSE "parse"]
    /\ UNCHANGED <<tables, last, uploads, output_pdf, got>>

\* the aggregation and summary = compute_liability(filing_status,
\* [total_income], withheld); an exception ends the request with a 500
Compute(c) ==
    /\ req[c].pc = "compute"
    /\ req' = [req EXCEPT ![c] =
                  request_after(@, index_summary(req[c].form,
                                    aggregate(req[c].parsed_docs, FZero, FZero)))]
    /\ UNCHANGED <<tables, last, uploads, output_pdf, got>>

\* generate_1040: if os.path.exists(output_path):
GenExists(c) ==
    /\ req[c].pc = "gen_exists"
    /\ req' = [req EXCEPT ![c].pc = IF output_pdf.exists THEN "gen_remove"
                                    ELSE "gen_save"]
    /\ UNCHANGED <<tables, last, uploads, output_pdf, got>>

\* generate_1040: os.remove(output_path), FileNotFoundError if it is gone
GenRemove(c) ==
    /\ req[c].pc = "gen_remove"
    /\ IF output_pdf.exists
       THEN /\ output_pdf' = NoFile
            /\ req' = [req EXCEPT ![c].pc = "gen_save"]
       ELSE /\ req' = [req EXCEPT ![c].pc = "done", ![c].page = "500"]
            /\ UNCHANGED output_pdf
    /\ UNCHANGED <<tables, last, uploads, got>>

\* generate_1040: c.save() writes the file; index renders result.html
GenSave(c) ==
    /\ req[c].pc = "gen_save"
    /\ output_pdf' = PdfOf(req[c].summary)
    /\ req' = [req EXCEPT ![c].pc = "done", ![c].page = "result"]
    /\ UNCHANGED <<tables, last, uploads, got>>

\* GET /preview_pdf from the result page: send_from_directory("static",
\* "output_1040.pdf"), a 404 if the file is not there
PreviewPdf(c) ==
    /\ req[c].page = "result"
    /\ got' = [got EXCEPT ![c] = [route |-> "preview_pdf", pdf |-> output_pdf]]
    /\ UNCHANGED <<tables, last, uploads, output_pdf, req>>

\* GET /download from the result page
Download(c) ==
    /\ req[c].page = "result"
    /\ got' = [got EXCEPT ![c] = [route |-> "download", pdf |-> output_pdf]]
    /\ UNCHANGED <<tables, last, uploads, output_pdf, req>>

NextApp ==
    \E c \in Clients :
        \/ IndexGet(c)
        \/ IndexPost(c)
        \/ SaveFile(c)
        \/ CheckUploads(c)
        \/ ParseFile(c)
        \/ Compute(c)
        \/ GenExists(c)
        \/ GenRemove(c)
        \/ GenSave(c)
        \/ PreviewPdf(c)
        \/ Download(c)

-----------------------------------------------------------------------------
(* The core as a state machine: a call is made, its outcome is looked at,   *)
(* and the caller goes on to its next call.                                *)

vars == <<TAX_BRACKETS_2024, STANDARD_DEDUCTION, last, uploads, output_pdf, req, got>>

Init ==
    /\ TAX_BRACKETS_2024 = TAX_BRACKETS_2024_TABLE
    /\ STANDARD_DEDUCTION = STANDARD_DEDUCTION_TABLE
    /\ last = [op |-> "none"]
    /\ uploads = <<>>
    /\ output_pdf = NoFile
    /\ req = [c \in Clients |-> IdleRequest]
    /\ got = [c \in Clients |-> [route |-> "none", pdf |-> NoFile]]

CallCalculateTax ==
    /\ last.op = "none"
    /\ \E m \in TaxableGrid, status \in StatusKeys \cup UnknownStatusInputs :
        /\ last' = [op |-> "calculate_tax", income |-> m, status |-> status,
                    out |-> calculate_tax(Dec(m), status)]
        /\ UNCHANGED <<tables, appVars>>

CallComputeLiability ==
    /\ last.op = "none"
    /\ \E in \in LiabilityInputs :
        /\ last' = [op |-> "compute_liability", status |-> in[1],
                    incomes |-> in[2], withheld |-> in[3],
                    out |-> compute_liability(in[1],
                               [i \in 1..Len(in[2]) |-> Dec(in[2][i])], Dec(in[3]))]
        /\ UNCHANGED <<tables, appVars>>

CallToFloat ==
    /\ last.op = "none"
    /\ \E value \in FloatInputs :
        /\ last' = [op |-> "to_float", value |-> value, out |-> to_float(value)]
        /\ UNCHANGED <<tables, appVars>>

Return ==
    /\ last.op # "none"
    /\ last' = [op |-> "none"]
    /\ UNCHANGED <<tables, appVars>>

Next == CallCalculateTax \/ CallComputeLiability \/ CallToFloat \/ Return

Spec == Init /\ [][Next]_vars

-----------------------------------------------------------------------------
(* Properties of the core.                                                 *)

\* the cents of a value rounded to 2 places
Cents(x) == RoundCents(x)

\* rate * max(0, min(income, upperBound) - lowerBound) for one row, exactly:
\* whole cents, and a rest in thousandths of a cent
MarginalTerm(m, row) ==
    LET top   == IF row[2] = Unbounded \/ m < row[2] * 1000 THEN m ELSE row[2] * 1000
        width == IF top > row[1] * 1000 THEN top - row[1] * 1000 ELSE 0
    IN  [cents |-> row[3] * (width \div 1000), frac |-> row[3] * (width % 1000)]

RECURSIVE MarginalSum(_, _, _)
MarginalSum(m, rows, i) ==
    IF i > Len(rows) THEN [cents |-> 0, frac |-> 0]
    ELSE LET t    == MarginalTerm(m, rows[i])
             rest == MarginalSum(m, rows, i + 1)
         IN  [cents |-> t.cents + rest.cents, frac |-> t.frac + rest.frac]

\* C1: for a status of the table and a non-negative income, calculate_tax
\* returns a 2-place value that is the progressive marginal tax (the sum
\* over the bands of rate * max(0, min(income, upper) - lower)) rounded to
\* the cent: it is within half a cent of that sum; it is 0.00 at income 0,
\* and 5295.50 at 45400 under single.
C1_ProgressiveMarginalTax ==
    (last.op = "calculate_tax" /\ last.status \in StatusKeys) =>
        /\ last.out.exc = "none"
        /\ LET r == Cents(last.out.val)
               e == MarginalSum(last.income, BRACKET_ROWS[KeyIndex(last.status)], 1)
           IN  /\ last.out.val = FDivInt(r, 100)
               /\ Abs(1000 * (r - e.cents) - e.frac) <= 500
               /\ (last.income = 0 => r = 0)
               /\ (last.income = 45400000 /\ last.status = Key(1) => r = 529550)

C1_Witness ==
    /\ last.op = "calculate_tax"
    /\ last.status = Key(1)
    /\ last.income = 45400000
    /\ Cents(last.out.val) = 529550

\* C2: the summary's Taxable Income is max(0, Total Income - Standard
\* Deduction) and is never negative, whatever the status string, the
\* income components and the withheld amount.
C2_TaxableIncomeFloored ==
    last.op = "compute_liability" =>
        /\ last.out.exc = "none"
        /\ LET v    == last.out.val
               diff == Cents(v.Total_Income) - Cents(v.Standard_Deduction)
           IN  /\ Cents(v.Taxable_Income) = (IF diff > 0 THEN diff ELSE 0)
               /\ Cents(v.Taxable_Income) >= 0

C2_Witness ==
    /\ last.op = "compute_liability"
    /\ last.incomes = <<-5000000>>
    /\ last.out.exc = "none"
    /\ Cents(last.out.val.Total_Income) = -500000
    /\ Cents(last.out.val.Taxable_Income) = 0

\* the matching the specification describes: letter case ignored, leading
\* and trailing whitespace ignored, every run of spaces, tabs, underscores
\* and hyphens between words taken as one separator
IsSeparator(c) == c \in {" ", "\t", "_", "-"}

RECURSIVE CollapseSeparators(_)
CollapseSeparators(s) ==
    IF s = <<>> THEN s
    ELSE IF ~IsSeparator(Head(s)) THEN <<Head(s)>> \o CollapseSeparators(Tail(s))
    ELSE IF Tail(s) # <<>> /\ IsSeparator(Head(Tail(s))) THEN CollapseSeparators(Tail(s))
    ELSE <<"_">> \o CollapseSeparators(Tail(s))

CanonicalStatus(s) == CollapseSeparators(str_strip(str_lower(s)))

\* C3: a status string that equals one of the four statuses up to letter
\* case, spacing and word separator gets that status's standard deduction
\* and that status's brackets, not the Single fallback.
C3_StatusMatchedUpToCaseAndSpacing ==
    (last.op = "compute_liability" /\ CanonicalStatus(last.status) \in StatusKeys) =>
        LET k == KeyIndex(CanonicalStatus(last.status))
        IN  /\ last.out.exc = "none"
            /\ Cents(last.out.val.Standard_Deduction) = 100 * DEDUCTION_ROWS[k]
            /\ last.out = compute_liability(Key(k),
                              [i \in 1..Len(last.incomes) |-> Dec(last.incomes[i])],
                              Dec(last.withheld))

\* C4: an unrecognized status string is not an error: for a status string
\* that line 93 does not turn into a key of the tables (every string that
\* is none of the four statuses under the looser matching above is one),
\* compute_liability returns, and its summary is the one for "single" with
\* the same incomes and withheld amount: Single's deduction and Single's
\* brackets together.
C4_UnknownStatusIsSingle ==
    (last.op = "compute_liability" /\ normalize_status(last.status) \notin StatusKeys) =>
        /\ last.out.exc = "none"
        /\ Cents(last.out.val.Standard_Deduction) = 100 * DEDUCTION_ROWS[1]
        /\ last.out = compute_liability(Key(1),
                          [i \in 1..Len(last.incomes) |-> Dec(last.incomes[i])],
                          Dec(last.withheld))

C4_Witness ==
    /\ last.op = "compute_liability"
    /\ last.status = <<"f","o","o">>
    /\ last.incomes = <<60000000>>
    /\ last.out.exc = "none"
    /\ Cents(last.out.val.Federal_Tax_Owed) = 529550

\* the values to_float must turn into 0.0: None (also what a missing key
\* reads as), the empty string, and whatever fails numeric coercion
NotNumeric(value) ==
    \/ value.t \in {"None", "list"}
    \/ value.t = "str" /\ float_of_str(value.s).exc # "none"

\* C5: to_float is total: it never raises, and it returns 0.0 for None, a
\* missing key, the empty string and any value that fails numeric coercion.
C5_ToFloatTotal ==
    last.op = "to_float" =>
        /\ last.out.exc = "none"
        /\ (NotNumeric(last.value) => last.out.val = FZero)

\* C6: in every summary, Refund or Balance Due equals the stored Federal
\* Tax Withheld minus the stored Federal Tax Owed.
C6_RefundIsWithheldMinusOwed ==
    (last.op = "compute_liability" /\ last.out.exc = "none") =>
        Cents(last.out.val.Refund_or_Balance_Due)
          = Cents(last.out.val.Federal_Tax_Withheld) - Cents(last.out.val.Federal_Tax_Owed)

\* C7: calculate_tax is non-decreasing in the income: the tax of every
\* income of the grid up to the one of the call is at most the call's tax.
C7_TaxNonDecreasing ==
    (last.op = "calculate_tax" /\ last.status \in StatusKeys /\ last.out.exc = "none") =>
        \A a \in TaxableGrid :
            a <= last.income =>
                LET lower == calculate_tax(Dec(a), last.status)
                IN  lower.exc = "none" /\ Cents(lower.val) <= Cents(last.out.val)

C7_Witness ==
    /\ last.op = "calculate_tax"
    /\ last.status = Key(1)
    /\ last.income = 45400000
    /\ 44725000 - 10 \in TaxableGrid
    /\ Cents(calculate_tax(Dec(44725000 - 10), Key(1)).val) = 514700
    /\ Cents(last.out.val) = 529550

RECURSIVE EdgeSum(_, _)
EdgeSum(rows, i) ==
    IF i = 0 THEN 0 ELSE rows[i][3] * (rows[i][2] - rows[i][1]) + EdgeSum(rows, i - 1)

\* C8: at an income equal to the upper bound of band i the tax is the sum
\* of the full bands 1..i, and one cent above it the tax is higher by at
\* most the next band's rate times one cent, up to the final rounding of
\* half a cent.
C8_NoJumpAtBandEdge ==
    (last.op = "calculate_tax" /\ last.status \in StatusKeys /\ last.out.exc = "none") =>
        LET rows == BRACKET_ROWS[KeyIndex(last.status)]
        IN  \A i \in 1..(Len(rows) - 1) :
                last.income = rows[i][2] * 1000 =>
                    LET above == calculate_tax(Dec(last.income + 10), last.status)
                        step  == Cents(above.val) - Cents(last.out.val)
                    IN  /\ Cents(last.out.val) = EdgeSum(rows, i)
                        /\ above.exc = "none"
                        /\ 0 <= step
                        /\ 100 * step <= rows[i + 1][3] + 50

C8_Witness ==
    /\ last.op = "calculate_tax"
    /\ last.status = Key(2)
    /\ last.income = 89450000
    /\ Cents(last.out.val) = 1029400

\* a band list as the source writes it: rows (low, high, rate in hundredths)
WellFormedBands(rows) ==
    /\ Len(rows) >= 1
    /\ Len(rows) <= 7
    /\ rows[1][1] = 0
    /\ rows[Len(rows)][2] = Unbounded
    /\ \A i \in 1..Len(rows) :
          /\ rows[i][1] >= 0
          /\ rows[i][2] = Unbounded \/ rows[i][1] < rows[i][2]
          /\ rows[i][3] >= 0
          /\ rows[i][3] < 100
    /\ \A i \in 1..(Len(rows) - 1) :
          /\ rows[i][2] # Unbounded
          /\ rows[i][2] = rows[i + 1][1]

\* C9: each of the four band lists is well formed (at most 7 bands, the
\* first starting at 0, the last unbounded, every band with low < high and
\* a rate in [0, 1), each band starting where the one before ends), and no
\* call of calculate_tax or compute_liability changes the tables.
C9_BracketTablesWellFormed ==
    /\ DOMAIN TAX_BRACKETS_2024 = StatusKeys
    /\ \A key \in StatusKeys : WellFormedBands(TAX_BRACKETS_2024[key])
    /\ TAX_BRACKETS_2024 = TAX_BRACKETS_2024_TABLE
    /\ STANDARD_DEDUCTION = STANDARD_DEDUCTION_TABLE

C9_Witness ==
    /\ last.op = "compute_liability"
    /\ last.out.exc = "none"
    /\ TAX_BRACKETS_2024 = BracketTable(BRACKET_ROWS)
    /\ \A key \in StatusKeys : Len(TAX_BRACKETS_2024[key]) = 7

-----------------------------------------------------------------------------
(* The web application.                                                    *)

SpecApp == Init /\ [][NextApp]_vars

\* the files of a client's POST that index saves, in order
SavedFiles(c) ==
    SelectSeq(req[c].files, LAMBDA f : str_strip(f.filename) # <<>>)

\* C10: requests are isolated: the PDF a client receives from /download
\* or /preview_pdf after its POST is the one generated from the summary of
\* that POST, and the documents parsed for a client are the files that
\* client uploaded.
C10_RequestsIsolated ==
    \A c \in Clients :
        /\ got[c].route # "none" =>
              got[c].pdf.exists /\ got[c].pdf.summary = req[c].summary
        /\ \A i \in 1..Len(req[c].parsed_docs) :
              req[c].parsed_docs[i].fields = SavedFiles(c)[i].doc

=============================================================================
